---------------------------- MODULE Spec2Model ----------------------------
(***************************************************************************)
(* A model of notebooks/utils/utils.py (currency_to_float, validate_paths)   *)
(* and of JobDescriptionAnalysis.to_flat_dict.                               *)
(*                                                                           *)
(* Python values are tagged records (field t is the Python type).  A str is  *)
(* a sequence of one-character strings.  A float is a record                 *)
(*     [k, neg, m, e]   k = "nan" | "inf" | "fin",  value (-1)^neg * m*10^e  *)
(* kept normalised (m has no trailing zero; zero is m = 0, e = 0).  Decimal  *)
(* numerals with at most 9 significant digits map one-to-one to IEEE-754     *)
(* doubles, so a double in the normal range is identified with the shortest  *)
(* decimal that denotes it.  Results too large for a double become inf (or   *)
(* OverflowError for int -> float); results below half the least subnormal   *)
(* become zero; the loss of precision inside the subnormal range is not      *)
(* modelled.                                                                 *)
(***************************************************************************)
EXTENDS Integers, Sequences, FiniteSets, TLC

VARIABLES
    pc,        \* position of the caller: "call", "done", "reapplied", "raised"
    value,     \* the argument of the call under way
    result,    \* outcome of the call: what it returned or the exception raised
    again      \* outcome of calling currency_to_float on the returned value

vars == <<pc, value, result, again>>

(***************************************************************************)
(* Bounds                                                                  *)
(***************************************************************************)
MaxLen == 4        \* longest string enumerated exhaustively over Core
MaxBatch == 3      \* longest pandas Series given to currency_to_float
MaxPaths == 3      \* most paths given to validate_paths
MaxItems == 2      \* most items of a list field of JobDescriptionAnalysis

(***************************************************************************)
(* Characters and the str methods the code calls                           *)
(***************************************************************************)
Digits == {"0", "1", "2", "3", "4", "5", "6", "7", "8", "9"}

DigitVal(c) ==
    CASE c = "0" -> 0 [] c = "1" -> 1 [] c = "2" -> 2 [] c = "3" -> 3
      [] c = "4" -> 4 [] c = "5" -> 5 [] c = "6" -> 6 [] c = "7" -> 7
      [] c = "8" -> 8 [] c = "9" -> 9

\* The characters str.strip() removes (those of the model's alphabet).
Whitespace == {" ", "\t", "\n"}

LowerCase ==
    <<"a", "b", "c", "d", "e", "f", "g", "h", "i", "j", "k", "l", "m",
      "n", "o", "p", "q", "r", "s", "t", "u", "v", "w", "x", "y", "z">>

UpperCase ==
    <<"A", "B", "C", "D", "E", "F", "G", "H", "I", "J", "K", "L", "M",
      "N", "O", "P", "Q", "R", "S", "T", "U", "V", "W", "X", "Y", "Z">>

\* str.lower() on one character.
LowerChar(c) ==
    IF \E i \in 1..Len(UpperCase) : UpperCase[i] = c
    THEN LowerCase[CHOOSE i \in 1..Len(UpperCase) : UpperCase[i] = c]
    ELSE c

\* str.lower()
Lower(s) == [i \in 1..Len(s) |-> LowerChar(s[i])]

RECURSIVE LStrip(_)
LStrip(s) ==
    IF s # <<>> /\ Head(s) \in Whitespace THEN LStrip(Tail(s)) ELSE s

RECURSIVE RStrip(_)
RStrip(s) ==
    IF s # <<>> /\ s[Len(s)] \in Whitespace
    THEN RStrip(SubSeq(s, 1, Len(s) - 1))
    ELSE s

\* str.strip()
Strip(s) == RStrip(LStrip(s))

\* str.replace(old, "") for a one-character old.
Replace(s, old) == SelectSeq(s, LAMBDA c : c # old)

(***************************************************************************)
(* Floating-point values                                                   *)
(***************************************************************************)
NaN == [k |-> "nan", neg |-> FALSE, m |-> 0, e |-> 0]

Inf(neg) == [k |-> "inf", neg |-> neg, m |-> 0, e |-> 0]

Fin(neg, m, e) == [k |-> "fin", neg |-> neg, m |-> m, e |-> e]

RECURSIVE Pow10(_)
Pow10(n) == IF n = 0 THEN 1 ELSE 10 * Pow10(n - 1)

RECURSIVE NumDigits(_)
NumDigits(m) == IF m < 10 THEN 1 ELSE 1 + NumDigits(m \div 10)

\* m (at most 9 digits) padded with zeros to 9 digits: its leading digits.
Lead9(m) == m * Pow10(9 - NumDigits(m))

\* Drops the trailing zeros of m > 0 into the exponent.
RECURSIVE Canon(_, _, _)
Canon(neg, m, e) ==
    IF m % 10 = 0 THEN Canon(neg, m \div 10, e + 1) ELSE Fin(neg, m, e)

\* Whether m * 10^e (m > 0, canonical) rounds to infinity: it is at least
\* 2^1024 - 2^970 = 1.797693134862315807...e308.
Overflows(m, e) ==
    LET lead == e + NumDigits(m) - 1
    IN  lead > 308 \/ (lead = 308 /\ Lead9(m) > 179769313)

\* Whether m * 10^e (m > 0, canonical) rounds to zero: it is at most
\* 2^-1075 = 2.4703282292062327...e-324.
Underflows(m, e) ==
    LET lead == e + NumDigits(m) - 1
    IN  lead < -324 \/ (lead = -324 /\ Lead9(m) <= 247032822)

\* The double nearest to (-1)^neg * m * 10^e (round to nearest, IEEE 754).
ToDouble(neg, m, e) ==
    IF m = 0 THEN Fin(neg, 0, 0)
    ELSE LET c == Canon(neg, m, e)
         IN  IF Overflows(c.m, c.e) THEN Inf(neg)
             ELSE IF Underflows(c.m, c.e) THEN Fin(neg, 0, 0)
             ELSE c


(***************************************************************************)
(* Python values and the outcome of a call                                 *)
(***************************************************************************)
NoneValue == [t |-> "NoneType"]

\* The int (-1)^neg * m * 10^e, e >= 0 (Python ints are unbounded).
IntValue(neg, m, e) == [t |-> "int", neg |-> neg, m |-> m, e |-> e]

FloatValue(f) == [t |-> "float", f |-> f]

StrValue(s) == [t |-> "str", s |-> s]

\* A pandas Series holding the values xs (object dtype).
SeriesValue(xs) == [t |-> "Series", xs |-> xs]

Return(v) == [kind |-> "return", val |-> v, exc |-> "none"]

Raise(exc) == [kind |-> "raise", val |-> NoneValue, exc |-> exc]

(***************************************************************************)
(* float(s) for a str s: CPython strips the string, accepts single         *)
(* underscores between digits, then an optional sign followed by a decimal *)
(* numeral with optional exponent, or inf / infinity / nan in any case;    *)
(* everything else is a ValueError.                                        *)
(***************************************************************************)
AllDigits(s) == \A i \in 1..Len(s) : s[i] \in Digits

RECURSIVE DigitsToNat(_)
DigitsToNat(s) ==
    IF s = <<>> THEN 0
    ELSE 10 * DigitsToNat(SubSeq(s, 1, Len(s) - 1)) + DigitVal(s[Len(s)])

\* Leading zeros carry no value; dropping them keeps the numbers small.
RECURSIVE DropLeadingZeros(_)
DropLeadingZeros(s) ==
    IF s # <<>> /\ Head(s) = "0" THEN DropLeadingZeros(Tail(s)) ELSE s

\* An underscore must stand between two digits.
UnderscoresOk(s) ==
    \A i \in 1..Len(s) :
        s[i] = "_" => /\ i > 1 /\ s[i - 1] \in Digits
                      /\ i < Len(s) /\ s[i + 1] \in Digits

FirstIndex(s, c) ==
    IF \E i \in 1..Len(s) : s[i] = c
    THEN CHOOSE i \in 1..Len(s) : s[i] = c /\ \A j \in 1..(i - 1) : s[j] # c
    ELSE 0

\* digits [. digits] or . digits, with at least one digit.
IsMantissa(s) ==
    /\ \A i \in 1..Len(s) : s[i] \in Digits \cup {"."}
    /\ Cardinality({i \in 1..Len(s) : s[i] = "."}) <= 1
    /\ \E i \in 1..Len(s) : s[i] \in Digits

\* [sign] digits, with at least one digit.
IsExponent(s) ==
    LET d == IF s # <<>> /\ Head(s) \in {"+", "-"} THEN Tail(s) ELSE s
    IN  d # <<>> /\ AllDigits(d)

ExponentValue(s) ==
    LET d == IF Head(s) \in {"+", "-"} THEN Tail(s) ELSE s
        n == DigitsToNat(DropLeadingZeros(d))
    IN  IF Head(s) = "-" THEN -n ELSE n

\* float(s): [ok |-> FALSE] stands for ValueError.
PyFloat(s) ==
    LET t    == Strip(s)
        u    == Replace(t, "_")
        neg  == u # <<>> /\ Head(u) = "-"
        body == IF u # <<>> /\ Head(u) \in {"+", "-"} THEN Tail(u) ELSE u
        low  == Lower(body)
        epos == FirstIndex(low, "e")
        mant == IF epos = 0 THEN body ELSE SubSeq(body, 1, epos - 1)
        expo == IF epos = 0 THEN <<>> ELSE SubSeq(body, epos + 1, Len(body))
        dot  == FirstIndex(mant, ".")
        frac == IF dot = 0 THEN 0 ELSE Len(mant) - dot
        m    == DigitsToNat(DropLeadingZeros(Replace(mant, ".")))
        x    == IF epos = 0 THEN 0 ELSE ExponentValue(expo)
    IN  IF ~UnderscoresOk(t) THEN [ok |-> FALSE, val |-> NaN]
        ELSE IF low \in {<<"i", "n", "f">>,
                         <<"i", "n", "f", "i", "n", "i", "t", "y">>}
             THEN [ok |-> TRUE, val |-> Inf(neg)]
        ELSE IF low = <<"n", "a", "n">> THEN [ok |-> TRUE, val |-> NaN]
        ELSE IF IsMantissa(mant) /\ (epos = 0 \/ IsExponent(expo))
             THEN [ok |-> TRUE, val |-> ToDouble(neg, m, x - frac)]
        ELSE [ok |-> FALSE, val |-> NaN]

\* float(i) for an int i: OverflowError when i is too large for a double.
PyFloatOfInt(v) ==
    IF v.m = 0 THEN Return(Fin(FALSE, 0, 0))
    ELSE LET c == Canon(v.neg, v.m, v.e)
         IN  IF Overflows(c.m, c.e) THEN Raise("OverflowError") ELSE Return(c)

(***************************************************************************)
(* str(value), reached for a str and for a pandas Series                   *)
(***************************************************************************)
RECURSIVE NatDigits(_)
NatDigits(n) ==
    LET d == CHOOSE c \in Digits : DigitVal(c) = n % 10
    IN  IF n < 10 THEN <<d>> ELSE Append(NatDigits(n \div 10), d)

Zeros(n) == [i \in 1..n |-> "0"]

\* repr of a float: positional between 1e-4 and 1e16, else scientific.
FloatRepr(f) ==
    LET ds   == NatDigits(f.m)
        n    == Len(ds)
        lead == f.e + n - 1
        sign == IF f.neg THEN <<"-">> ELSE <<>>
        xd   == NatDigits(IF lead < 0 THEN -lead ELSE lead)
    IN  IF f.k = "nan" THEN <<"n", "a", "n">>
        ELSE IF f.k = "inf" THEN sign \o <<"i", "n", "f">>
        ELSE IF lead < -4 \/ lead >= 16
             THEN sign \o <<Head(ds)>>
                  \o (IF n > 1 THEN <<".">> \o Tail(ds) ELSE <<>>)
                  \o <<"e", IF lead < 0 THEN "-" ELSE "+">>
                  \o (IF Len(xd) < 2 THEN <<"0">> ELSE <<>>) \o xd
        ELSE IF f.e >= 0 THEN sign \o ds \o Zeros(f.e) \o <<".", "0">>
        ELSE IF -f.e < n
             THEN sign \o SubSeq(ds, 1, n + f.e) \o <<".">>
                  \o SubSeq(ds, n + f.e + 1, n)
        ELSE sign \o <<"0", ".">> \o Zeros(-f.e - n) \o ds

\* str of an element of an object Series, as pandas prints it.
ElementStr(v) ==
    CASE v.t = "NoneType" -> <<"N", "o", "n", "e">>
      [] v.t = "str"      -> v.s
      [] v.t = "int"      -> (IF v.neg THEN <<"-">> ELSE <<>>)
                             \o NatDigits(v.m) \o Zeros(v.e)
      [] v.t = "float"    -> IF v.f.k = "nan" THEN <<"N", "a", "N">>
                             ELSE FloatRepr(v.f)

RECURSIVE SeriesRows(_, _)
SeriesRows(xs, i) ==
    IF i > Len(xs) THEN <<>>
    ELSE NatDigits(i - 1) \o <<" ", " ", " ", " ">> \o ElementStr(xs[i])
         \o <<"\n">> \o SeriesRows(xs, i + 1)

DtypeObject == <<"d", "t", "y", "p", "e", ":", " ", "o", "b", "j", "e", "c", "t">>

\* str(value) on line 68.  A Series prints one row per element (index, gap,
\* element; the column alignment is left out) and a dtype footer.
PyStr(v) ==
    CASE v.t = "str"      -> v.s
      [] v.t = "NoneType" -> <<"N", "o", "n", "e">>
      [] v.t = "int"      -> ElementStr(v)
      [] v.t = "float"    -> FloatRepr(v.f)
      [] v.t = "Series"   ->
            IF v.xs = <<>>
            THEN <<"S", "e", "r", "i", "e", "s", "(", "[", "]", ",", " ">>
                 \o DtypeObject \o <<")">>
            ELSE SeriesRows(v.xs, 1) \o DtypeObject

(***************************************************************************)
(* currency_to_float, step by step                                         *)
(***************************************************************************)
\* Line 62: value is None or (isinstance(value, float) and np.isnan(value))
IsMissing(v) == v.t = "NoneType" \/ (v.t = "float" /\ v.f.k = "nan")

\* Line 65: isinstance(value, (int, float))
IsNumber(v) == v.t \in {"int", "float"}

\* A slip on line 66: int(value) where float(value) is meant.
FloatOfNumberTruncated(v) ==
    IF v.t = "int" THEN PyFloatOfInt(v)
    ELSE IF v.f.k = "fin" /\ v.f.e < 0
         THEN Return(ToDouble(v.f.neg,
                              IF -v.f.e > 9 THEN 0 ELSE v.f.m \div Pow10(-v.f.e),
                              0))
    ELSE Return(v.f)

\* Line 66: float(value)
FloatOfNumber(v) == IF v.t = "int" THEN PyFloatOfInt(v) ELSE Return(v.f)

\* Line 69: not s or s.lower() in {"na", "n/a", "null", "none"}
IsSentinel(s) ==
    \/ s = <<>>
    \/ Lower(s) \in {<<"n", "a">>, <<"n", "/", "a">>,
                     <<"n", "u", "l", "l">>, <<"n", "o", "n", "e">>}

\* A slip on line 73: the thousands separator is left in.
RemoveCurrencyDollarOnly(s) == Strip(Replace(s, "$"))

\* Line 73: s.replace("$", "").replace(",", "").strip()
RemoveCurrency(s) == Strip(Replace(Replace(s, "$"), ","))

\* Lines 75-78: float(s), np.nan on ValueError
ParseOrNaN(s) ==
    LET r == PyFloat(s) IN IF r.ok THEN Return(r.val) ELSE Return(NaN)

\* A slip on lines 63 and 70: missing values filled with 0.0, not np.nan.
currency_to_float_zero_filled(v) ==
    IF IsMissing(v) THEN Return(Fin(FALSE, 0, 0))
    ELSE IF IsNumber(v) THEN FloatOfNumber(v)
    ELSE LET s == Strip(PyStr(v))
         IN  IF IsSentinel(s) THEN Return(Fin(FALSE, 0, 0))
             ELSE ParseOrNaN(RemoveCurrency(s))

currency_to_float(v) ==
    IF IsMissing(v) THEN Return(NaN)
    ELSE IF IsNumber(v) THEN FloatOfNumber(v)
    ELSE LET s == Strip(PyStr(v))
         IN  IF IsSentinel(s) THEN Return(NaN)
             ELSE ParseOrNaN(RemoveCurrency(s))

(***************************************************************************)
(* Arguments the caller may pass                                           *)
(***************************************************************************)
\* The alphabet of the strings enumerated exhaustively.
Core == {"1", "0", ".", "-", "+", "$", ",", " ", "e"}

CoreStrings == UNION {[1..n -> Core] : n \in 0..MaxLen}

Sentinels ==
    {<<"n", "a">>, <<"n", "/", "a">>, <<"n", "u", "l", "l">>,
     <<"n", "o", "n", "e">>}

UpperChar(c) ==
    IF \E i \in 1..Len(LowerCase) : LowerCase[i] = c
    THEN UpperCase[CHOOSE i \in 1..Len(LowerCase) : LowerCase[i] = c]
    ELSE c

Pads == {<<>>, <<" ">>, <<"\t">>, <<" ", "\t">>}

\* Every sentinel and the empty string, in every letter case, padded.
SentinelStrings ==
    {p \o [i \in 1..Len(tok) |-> IF i \in up THEN UpperChar(tok[i]) ELSE tok[i]]
       \o q : <<tok, up>> \in UNION {{tok} \X SUBSET (1..Len(tok)) :
                                       tok \in Sentinels \cup {<<>>}},
              p \in Pads, q \in Pads}

\* Strings of the tests and strings float() treats specially.
SpecialStrings ==
    {<<"$", "7", "0", ".", "3", "8">>,
     <<"$", "3", ",", "1", "1", "9", ".", "3", "9">>,
     <<" ", "$", "4", ",", "3", "7", "5", ".", "4", "7", " ">>,
     <<"$", "1", ",", "0", "0", "0">>,
     <<"i", "n", "v", "a", "l", "i", "d">>,
     <<"$", "5", "0", ".", "2", "5">>,
     <<"2", ",", "5", "0", "0", ".", "7", "5">>,
     <<"-", "$", "1", "0", "0">>,
     <<"-", "$", "5", "0", ".", "2", "5">>,
     <<"\t", "$", "3", "0", "0", "\t">>,
     <<" ", "-", ",", "$", "1", ",", ".", "5", "$", "\t">>,
     <<"i", "n", "f">>, <<"-", "I", "n", "f">>,
     <<"$", "i", "n", "f", "i", "n", "i", "t", "y">>,
     <<"n", "a", "n">>, <<"N", "a", "N">>,
     <<"1", "e", "9", "9", "9">>, <<"-", "1", "e", "9", "9", "9">>,
     <<"1", "e", "-", "9", "9", "9">>,
     <<"1", ".", "8", "e", "3", "0", "8">>,
     <<"1", ".", "7", "9", "e", "3", "0", "8">>,
     <<"1", "E", "5">>, <<"+", "5">>, <<"+", ".", "5">>,
     <<"1", "_", "0">>, <<"1", "_", "_", "0">>, <<"_", "1">>,
     <<"1", ".", "2", ".", "3">>, <<"1", " ", "0">>, <<"-", " ", "5">>,
     <<"E", "U", "R", "5">>, <<"(", "1", "0", "0", ")">>,
     <<"5", "%">>, <<"\n", "7", "\n">>}

IntInputs ==
    {IntValue(FALSE, 0, 0), IntValue(FALSE, 1, 2), IntValue(FALSE, 2, 2),
     IntValue(TRUE, 7, 0), IntValue(FALSE, 1, 308), IntValue(FALSE, 179, 306),
     IntValue(FALSE, 18, 307), IntValue(TRUE, 1, 400)}

FloatInputs ==
    {FloatValue(NaN), FloatValue(Inf(FALSE)), FloatValue(Inf(TRUE)),
     FloatValue(Fin(FALSE, 0, 0)), FloatValue(Fin(TRUE, 0, 0)),
     FloatValue(Fin(FALSE, 1, 2)), FloatValue(Fin(FALSE, 3005, -1)),
     FloatValue(Fin(TRUE, 5025, -2)), FloatValue(Fin(FALSE, 1, 300))}

Inputs ==
    {NoneValue} \cup IntInputs \cup FloatInputs
    \cup {StrValue(s) : s \in CoreStrings \cup SentinelStrings \cup SpecialStrings}

(***************************************************************************)
(* The caller: one call of currency_to_float, then a second call on what   *)
(* the first returned                                                      *)
(***************************************************************************)
NoResult == [kind |-> "pending", val |-> NoneValue, exc |-> "none"]

Init ==
    /\ pc = "call"
    /\ value \in Inputs
    /\ result = NoResult
    /\ again = NoResult

Call ==
    /\ pc = "call"
    /\ result' = currency_to_float(value)
    /\ pc' = IF result'.kind = "raise" THEN "raised" ELSE "done"
    /\ UNCHANGED <<value, again>>

Reapply ==
    /\ pc = "done"
    /\ again' = currency_to_float(FloatValue(result.val))
    /\ pc' = "reapplied"
    /\ UNCHANGED <<value, result>>

Next == Call \/ Reapply

Spec == Init /\ [][Next]_vars

(***************************************************************************)
(* The tests' use: currency_to_float called on a whole pandas Series       *)
(***************************************************************************)
BatchElements ==
    {StrValue(<<"$", "1", ",", "0", "0", "0">>),
     StrValue(<<"i", "n", "v", "a", "l", "i", "d">>),
     StrValue(<<>>), NoneValue, IntValue(FALSE, 2, 2),
     FloatValue(Fin(FALSE, 3005, -1)), FloatValue(NaN)}

InitBatch ==
    /\ pc = "call"
    /\ value \in {SeriesValue(xs) :
                    xs \in UNION {[1..n -> BatchElements] : n \in 0..MaxBatch}}
    /\ result = NoResult
    /\ again = NoResult

SpecBatch == InitBatch /\ [][Call]_vars

(***************************************************************************)
(* validate_paths                                                          *)
(***************************************************************************)
PathNames == {"bronze", "gold", "salaries.json"}

\* A slip on line 49: "or" where "and" is meant.
validate_paths_or(paths, raise_on_missing, fs) ==
    LET missing == SelectSeq(paths, LAMBDA p : p \notin fs)
    IN  IF missing # <<>> \/ raise_on_missing
        THEN Raise("FileNotFoundError")
        ELSE Return(missing)

\* Lines 47-53.  fs is the set of paths that exist.
validate_paths(paths, raise_on_missing, fs) ==
    LET missing == SelectSeq(paths, LAMBDA p : p \notin fs)
    IN  IF missing # <<>> /\ raise_on_missing
        THEN Raise("FileNotFoundError")
        ELSE Return(missing)

InitPaths ==
    /\ pc = "call"
    /\ value \in [paths : UNION {[1..n -> PathNames] : n \in 0..MaxPaths},
                  raise_on_missing : BOOLEAN,
                  fs : SUBSET PathNames]
    /\ result = NoResult
    /\ again = NoResult

CallValidatePaths ==
    /\ pc = "call"
    /\ result' = validate_paths(value.paths, value.raise_on_missing, value.fs)
    /\ pc' = IF result'.kind = "raise" THEN "raised" ELSE "done"
    /\ UNCHANGED <<value, again>>

SpecPaths == InitPaths /\ [][CallValidatePaths]_vars

(***************************************************************************)
(* JobDescriptionAnalysis.to_flat_dict                                     *)
(***************************************************************************)
\* The Optional[List[str]] fields, in declaration order.
ListFields ==
    <<"certifications", "working_conditions", "legal_references",
      "example_duties", "other_requirements", "special_requirements",
      "combination_of_requirements", "disqualifying_factors",
      "accommodations">>

\* The Optional[str] fields.
StrFields ==
    {"education_level", "degree_type", "role_definition", "reports_to",
     "supported_by", "authorizing_body", "required_experience",
     "exemption_status", "probationary_period"}

\* The Optional[bool] fields.
BoolFields ==
    {"is_travel_required", "is_driver_license_required",
     "is_background_checked", "is_polygraph_required",
     "is_medical_examination_required", "is_drug_test_required",
     "is_physical_examination_required", "is_mental_examination_required",
     "has_disqualifying_factors", "has_accommodations"}

\* The Optional[int] field.
IntFields == {"years_of_experience"}

Fields ==
    {ListFields[i] : i \in 1..Len(ListFields)}
    \cup StrFields \cup BoolFields \cup IntFields

ListValue(items) == [t |-> "list", items |-> items]

BoolValue(b) == [t |-> "bool", b |-> b]

\* A slip on line 162: "|" without the surrounding blanks.
RECURSIVE JoinTight(_)
JoinTight(items) ==
    IF Len(items) = 1 THEN Head(items)
    ELSE Head(items) \o <<"|">> \o JoinTight(Tail(items))

\* Line 162: " | ".join(str(v) for v in value), value not empty
RECURSIVE Join(_)
Join(items) ==
    IF Len(items) = 1 THEN Head(items)
    ELSE Head(items) \o <<" ", "|", " ">> \o Join(Tail(items))

\* Lines 155-166.  self maps each field to its value, as model_dump() does.
to_flat_dict(self, jurisdiction, job_code) ==
    LET data == [k \in Fields \cup {"jurisdiction", "job_code"} |->
                    IF k = "jurisdiction" THEN jurisdiction
                    ELSE IF k = "job_code" THEN job_code
                    ELSE self[k]]
    IN  [k \in DOMAIN data |->
            IF data[k].t = "list" /\ data[k].items # <<>>
            THEN StrValue(Join(data[k].items))
            ELSE IF data[k].t = "list" THEN NoneValue
            ELSE data[k]]

Items == {<<"C", "P", "A">>, <<"C", "F", "A">>}

ListValues ==
    {NoneValue}
    \cup {ListValue(xs) : xs \in UNION {[1..n -> Items] : n \in 0..MaxItems}}

StrValues == {NoneValue, StrValue(<<"E", "x", "e", "m", "p", "t">>),
              StrValue(<<"a", " ", "|", " ", "b">>)}

BoolValues == {NoneValue, BoolValue(TRUE), BoolValue(FALSE)}

IntValues == {NoneValue, IntValue(FALSE, 5, 0)}

\* The instances of the model tried: the list fields take two values in
\* turn, the fields of each other type share one value.
Instances ==
    {[k \in Fields |->
        IF k \in StrFields THEN s
        ELSE IF k \in BoolFields THEN b
        ELSE IF k \in IntFields THEN n
        ELSE IF (CHOOSE i \in 1..Len(ListFields) : ListFields[i] = k) % 2 = 1
             THEN l1 ELSE l2] :
     l1 \in ListValues, l2 \in ListValues, s \in StrValues,
     b \in BoolValues, n \in IntValues}

InitFlat ==
    /\ pc = "call"
    /\ value \in [self : Instances,
                  jurisdiction : {StrValue(<<"s", "f">>), StrValue(<<>>)},
                  job_code : {StrValue(<<"1", "2">>)}]
    /\ result = NoResult
    /\ again = NoResult

CallToFlatDict ==
    /\ pc = "call"
    /\ result' = Return(to_flat_dict(value.self, value.jurisdiction,
                                     value.job_code))
    /\ pc' = "done"
    /\ UNCHANGED <<value, again>>

SpecFlat == InitFlat /\ [][CallToFlatDict]_vars

(***************************************************************************)
(* Vocabulary of the properties, defined apart from the operators above    *)
(***************************************************************************)
Returned == pc \in {"done", "reapplied"}

\* s without its leading and trailing whitespace.
Trimmed(s) ==
    LET ink == {i \in 1..Len(s) : s[i] \notin {" ", "\t", "\n"}}
    IN  IF ink = {} THEN <<>>
        ELSE SubSeq(s, CHOOSE i \in ink : \A j \in ink : i <= j,
                       CHOOSE i \in ink : \A j \in ink : i >= j)

\* a equals the lower-case word w in some letter case.
EqualsIgnoringCase(a, w) ==
    /\ Len(a) = Len(w)
    /\ \A i \in 1..Len(a) : a[i] = w[i] \/ a[i] = UpperChar(w[i])

\* None, a float NaN, or a string that is blank or a sentinel once trimmed.
DesignatedMissing(v) ==
    \/ v.t = "NoneType"
    \/ v.t = "float" /\ v.f.k = "nan"
    \/ v.t = "str" /\ \/ Trimmed(v.s) = <<>>
                      \/ \E w \in Sentinels : EqualsIgnoringCase(Trimmed(v.s), w)

\* What is left of s after the trim, the removal of $ and , and the second trim.
Remainder(s) ==
    Trimmed(SelectSeq(Trimmed(s), LAMBDA c : c \notin {"$", ","}))

\* Optional leading '-', digits, optional single decimal point.
IsNumeral(n) ==
    LET body == IF n # <<>> /\ n[1] = "-" THEN SubSeq(n, 2, Len(n)) ELSE n
    IN  /\ \A i \in 1..Len(body) : body[i] \in Digits \cup {"."}
        /\ \A i, j \in 1..Len(body) : body[i] = "." /\ body[j] = "." => i = j
        /\ \E i \in 1..Len(body) : body[i] \in Digits

\* The digits of a numeral read as one natural number (the point left out).
RECURSIVE DigitsValue(_, _)
DigitsValue(n, acc) ==
    IF n = <<>> THEN acc
    ELSE IF Head(n) \in Digits
         THEN DigitsValue(Tail(n), 10 * acc + DigitVal(Head(n)))
         ELSE DigitsValue(Tail(n), acc)

\* The number of digits after the decimal point of a numeral.
FractionDigits(n) ==
    IF \E i \in 1..Len(n) : n[i] = "."
    THEN Len(n) - (CHOOSE i \in 1..Len(n) : n[i] = ".")
    ELSE 0

\* The float f is the number (-1)^neg * d * 10^x (d below 10^9).
HasValue(f, neg, d, x) ==
    /\ f.k = "fin"
    /\ f.neg = neg
    /\ \/ f.m = 0 /\ d = 0
       \/ /\ f.m # 0 /\ d # 0
          /\ f.e - x \in -9..9
          /\ IF f.e >= x THEN f.m * Pow10(f.e - x) = d
                         ELSE f.m = d * Pow10(x - f.e)

\* The float f is the value of the numeral n, sign included.
IsValueOf(f, n) ==
    HasValue(f, n[1] = "-", DigitsValue(n, 0), -FractionDigits(n))

(***************************************************************************)
(* C1: currency_to_float never raises: for None, for an int or a float of  *)
(* any magnitude and for a string of any content the call returns a value. *)
(***************************************************************************)
C1_NeverRaises == pc # "raised" /\ result.kind # "raise"

(***************************************************************************)
(* C2: every value currency_to_float returns is a finite float or NaN;     *)
(* it never returns an infinity.                                           *)
(***************************************************************************)
C2_FiniteOrMissing == Returned => result.val.k \in {"fin", "nan"}

(***************************************************************************)
(* C4: None, a float NaN, and every string that once trimmed is empty or   *)
(* one of na, n/a, null, none in any letter case, give NaN.                *)
(***************************************************************************)
C4_MissingGivesNaN ==
    pc # "call" /\ DesignatedMissing(value) => result = Return(NaN)

C4_Witness ==
    /\ pc = "done"
    /\ value = StrValue(<<"\t", "N", "/", "a", " ">>)
    /\ result = Return(NaN)

C6_OnlyNumeralsConvert ==
    pc # "call" /\ value.t = "str" /\ ~IsNumeral(Remainder(value.s))
        => result = Return(NaN)

(***************************************************************************)
(* C7: an int or a non-NaN float is returned as the same number, as a      *)
(* float, unchanged in magnitude and sign.                                 *)
(***************************************************************************)
C7_NumericPassthrough ==
    /\ pc # "call" /\ value.t = "int"
          => /\ result.kind = "return"
             /\ HasValue(result.val, value.neg, value.m, value.e)
    /\ pc # "call" /\ value.t = "float" /\ value.f.k # "nan"
          => result = Return(value.f)

(***************************************************************************)
(* C8: applying currency_to_float to a value it returned gives that value  *)
(* again: a number stays the same number, NaN stays NaN.                   *)
(***************************************************************************)
C8_Idempotent == pc = "reapplied" => again = result

C8_Witness ==
    /\ pc = "reapplied"
    /\ value = StrValue(<<"$", "5", "0", ".", "2", "5">>)
    /\ again = Return(Fin(FALSE, 5025, -2))

(***************************************************************************)
(* C3: applying the normalizer to a sequence xs gives a sequence of        *)
(* exactly Len(xs) results whose i-th element is the result for xs[i].     *)
(***************************************************************************)
C3_BatchKeepsLengthAndOrder ==
    pc # "call" /\ value.t = "Series"
        => /\ result.kind = "return"
           /\ "xs" \in DOMAIN result.val
           /\ Len(result.val.xs) = Len(value.xs)
           /\ \A i \in 1..Len(value.xs) :
                 Return(result.val.xs[i]) = currency_to_float(value.xs[i])

(***************************************************************************)
(* C9: validate_paths raises FileNotFoundError exactly when                *)
(* raise_on_missing is true and some given path does not exist; otherwise  *)
(* it returns the non-existing paths in the order given; a non-empty list  *)
(* of missing paths is returned only when raise_on_missing is false.       *)
(***************************************************************************)
\* The paths of ps that are not in fs, built from the last path backwards.
RECURSIVE NonExisting(_, _)
NonExisting(ps, fs) ==
    IF ps = <<>> THEN <<>>
    ELSE LET front == NonExisting(SubSeq(ps, 1, Len(ps) - 1), fs)
         IN  IF ps[Len(ps)] \in fs THEN front ELSE Append(front, ps[Len(ps)])

C9_ValidatePaths ==
    pc # "call" /\ "paths" \in DOMAIN value
        => LET gone == \E i \in 1..Len(value.paths) : value.paths[i] \notin value.fs
           IN  /\ result.kind = "raise" <=> value.raise_on_missing /\ gone
               /\ result.kind = "raise" => result.exc = "FileNotFoundError"
               /\ result.kind # "raise"
                     => result = Return(NonExisting(value.paths, value.fs))
               /\ result.kind = "return" /\ result.val # <<>>
                     => ~value.raise_on_missing

C9_Witness ==
    /\ pc = "done"
    /\ value = [paths |-> <<"gold", "bronze", "gold">>,
                raise_on_missing |-> FALSE, fs |-> {"bronze"}]
    /\ result = Return(<<"gold", "gold">>)

(***************************************************************************)
(* C10: to_flat_dict returns a dictionary whose keys are the model's       *)
(* fields plus jurisdiction and job_code (set to the arguments), in which  *)
(* no value is a list: a non-empty list field is its items joined in order *)
(* with " | ", an empty list field is None, any other field is unchanged.  *)
(***************************************************************************)
\* The items in order with " | " between them, built from the last item.
RECURSIVE PipeSeparated(_)
PipeSeparated(items) ==
    IF Len(items) = 1 THEN items[1]
    ELSE PipeSeparated(SubSeq(items, 1, Len(items) - 1))
         \o <<" ", "|", " ">> \o items[Len(items)]

C10_FlatDict ==
    pc = "done" /\ "self" \in DOMAIN value
        => LET d == result.val
           IN  /\ DOMAIN d = Fields \cup {"jurisdiction", "job_code"}
               /\ d["jurisdiction"] = value.jurisdiction
               /\ d["job_code"] = value.job_code
               /\ \A k \in DOMAIN d : d[k].t # "list"
               /\ \A k \in Fields :
                     LET v == value.self[k]
                     IN  IF v.t # "list" THEN d[k] = v
                         ELSE IF v.items = <<>> THEN d[k] = NoneValue
                         ELSE d[k] = StrValue(PipeSeparated(v.items))

C10_Witness ==
    /\ pc = "done"
    /\ "self" \in DOMAIN value
    /\ value.self["certifications"]
          = ListValue(<<<<"C", "P", "A">>, <<"C", "F", "A">>>>)
    /\ value.self["working_conditions"] = ListValue(<<>>)
    /\ result.val["certifications"]
          = StrValue(<<"C", "P", "A", " ", "|", " ", "C", "F", "A">>)
    /\ result.val["working_conditions"] = NoneValue
    /\ result.val["education_level"] = value.self["education_level"]

=============================================================================
